---- MODULE Spec2Model ----
(***************************************************************************)
(* A model of the equipment-parameter ML pipeline of the FOSSEE chemical   *)
(* equipment visualizer: the EquipmentMLModel object (backend/api/         *)
(* ml_models.py), its bundle files, and the web handlers and management    *)
(* command that train, save, load and predict (backend/api/views.py,       *)
(* backend/api/management/commands/retrain_ml.py).                         *)
(*                                                                         *)
(* Conventions.                                                            *)
(*  - An equipment type label is a natural number; the order of the        *)
(*    numbers is the sorted order of the labels.                           *)
(*  - A numeric cell is an integer counting half-units (v stands for v/2), *)
(*    so that the median of two whole values is exact; NaN is a missing    *)
(*    cell.  Input frames hold whole values (even numbers) or NaN.         *)
(*  - A fitted estimator is a term naming the algorithm and the data it    *)
(*    was fitted on; a prediction is a term over the estimator and its     *)
(*    input.  Equal terms are equal results.                               *)
(***************************************************************************)
EXTENDS Integers, Sequences, FiniteSets, TLC

\* ------------------------------------------------------------------ bounds

\* Users of the deployment.
NumUsers == 2
\* Blocks in which a bundle reaches the disk (buffered writes).
NumChunks == 2
\* Method calls made on the object of the object-level model.
MaxCalls == 3

\* --------------------------------------------------------------- data frame

NaN == -1

numeric_cols == <<"Flowrate", "Pressure", "Temperature">>

Row(t, f, p, tm) == [Type |-> t, Flowrate |-> f, Pressure |-> p, Temperature |-> tm]

isnull(v) == v = NaN

\* The element of a one-element set.  Only({ e(x) : x \in {v} }) is e(v) with
\* v computed once, as an assignment "x = v" followed by uses of x.
Only(S) == CHOOSE r \in S : TRUE

RECURSIVE SeqSum(_)
SeqSum(s) == IF s = <<>> THEN 0 ELSE Head(s) + SeqSum(Tail(s))

RECURSIVE Insert(_, _)
Insert(x, s) ==
    IF s = <<>> THEN <<x>>
    ELSE IF x <= Head(s) THEN <<x>> \o s
    ELSE <<Head(s)>> \o Insert(x, Tail(s))

RECURSIVE sorted(_)
sorted(s) == IF s = <<>> THEN <<>> ELSE Insert(Head(s), sorted(Tail(s)))

Column(df, col) == [i \in 1..Len(df) |-> df[i][col]]

dropna(s) == SelectSeq(s, LAMBDA v : ~isnull(v))

\* pandas Series.median(): the median of the cells that are present, NaN
\* when none is.
median(s) ==
    LET v == sorted(dropna(s))
        n == Len(v)
    IN  IF n = 0 THEN NaN
        ELSE IF n % 2 = 1 THEN v[(n + 1) \div 2]
        ELSE (v[n \div 2] + v[n \div 2 + 1]) \div 2

\* df[col].fillna(df[col].median()) for each numeric column with a missing cell.
fillna_median(df) ==
    Only({ [i \in 1..Len(df) |->
                [c \in DOMAIN df[i] |->
                    IF c \in {"Flowrate", "Pressure", "Temperature"} /\ isnull(df[i][c])
                    THEN med[c]
                    ELSE df[i][c]]]
           : med \in {[c \in {"Flowrate", "Pressure", "Temperature"} |->
                          IF \E i \in 1..Len(df) : isnull(df[i][c])
                          THEN median(Column(df, c))
                          ELSE NaN]} })

\* (np.abs(stats.zscore(col)) < 3), row by row: z = (x - mean) / std with the
\* population std; with n*x - S and n*SS - S*S the test is exact in integers.
\* A column holding a NaN, or of zero variance, gives NaN z-scores, and
\* NaN < 3 is False.
zscore_below_3(col) ==
    IF \E k \in 1..Len(col) : isnull(col[k]) THEN [i \in 1..Len(col) |-> FALSE]
    ELSE Only({ [i \in 1..m.n |->
                    (m.n * col[i] - m.S) * (m.n * col[i] - m.S)
                        < 9 * (m.n * m.SS - m.S * m.S)]
                : m \in {[n  |-> Len(col),
                          S  |-> SeqSum(col),
                          SS |-> SeqSum([k \in 1..Len(col) |-> col[k] * col[k]])]} })

\* The rows of df kept by the mask `below` of each column.
rows_below(df, below) ==
    Only({ [k \in 1..Len(idx) |-> df[idx[k]]]
           : idx \in {SelectSeq([i \in 1..Len(df) |-> i],
                                LAMBDA i : /\ below.Flowrate[i]
                                           /\ below.Pressure[i]
                                           /\ below.Temperature[i])} })

\* df[(z_scores < 3).all(axis=1)]
remove_outliers(df) ==
    Only({ rows_below(df, below)
           : below \in {[c \in {"Flowrate", "Pressure", "Temperature"} |->
                            Only({ zscore_below_3(col) : col \in {Column(df, c)} })]} })

\* Frames handed to the object directly.  Ten rows of two types, five each.
FrameTen ==
    << Row(1, 20, 10, 40), Row(2, 60, 30, 80), Row(1, 22, 12, 44), Row(2, 64, 32, 84),
       Row(1, 24, 14, 40), Row(2, 60, 34, 88), Row(1, 26, 10, 42), Row(2, 62, 30, 80),
       Row(1, 20, 16, 46), Row(2, 66, 36, 82) >>
\* Five records: four of one type, one of another, one cell missing.
FrameFive ==
    << Row(1, 20, 10, 40), Row(1, 24, NaN, 44), Row(1, 28, 14, 48), Row(1, 22, 18, 42),
       Row(2, 60, 30, 80) >>
\* Six records of three types, two each.
FrameSix ==
    << Row(3, 60, 30, 80), Row(3, 64, 36, 84), Row(1, 20, 10, 40), Row(1, 24, 12, 44),
       Row(2, 40, 20, 60), Row(2, 44, 24, 64) >>
\* Three records with the same pressure in every row.
FrameFlat ==
    << Row(1, 20, 10, 40), Row(2, 24, 10, 44), Row(1, 28, 10, 48) >>

Frames == {FrameTen, FrameFive, FrameSix, FrameFlat}

\* Frames handed to the cleaning alone.  Eleven rows, the last with a flowrate
\* far from the others; twelve rows, one more with the flowrate missing; one
\* row; two rows; and every three-row frame whose flowrates are missing, 20
\* or 40.
FrameOutlier == FrameTen \o << Row(1, 2000, 20, 60) >>
FrameOutlierGap == FrameTen \o << Row(1, 2000, 20, 60), Row(2, NaN, 22, 62) >>
FrameOne == << Row(1, 20, 10, 40) >>
FrameTwo == << Row(1, 20, 10, 40), Row(2, 40, 30, 80) >>
FramesOfThree ==
    { << Row(1, f1, 10, 40), Row(2, f2, 30, 80), Row(1, f3, 20, 60) >> :
        f1 \in {NaN, 20, 40}, f2 \in {NaN, 20, 40}, f3 \in {NaN, 20, 40} }

CleanFrames == Frames \cup {FrameOutlier, FrameOutlierGap, FrameOne, FrameTwo} \cup FramesOfThree

\* clean_data is a pure function of the frame: its value on the frames of the
\* input sets is tabulated once, and computed for any other frame.
clean_data_computed(df) == Only({ remove_outliers(x) : x \in {fillna_median(df)} })

CleanTable == [df \in CleanFrames |-> clean_data_computed(df)]

clean_data(df) == IF df \in DOMAIN CleanTable THEN CleanTable[df] ELSE clean_data_computed(df)

\* LabelEncoder.fit: the sorted distinct labels.
RECURSIVE Dedup(_)
Dedup(s) ==
    IF Len(s) <= 1 THEN s
    ELSE IF s[1] = s[2] THEN Dedup(Tail(s))
    ELSE <<Head(s)>> \o Dedup(Tail(s))

\* The labels in the order the rows give them, repeats of a neighbour dropped.
classes_as_they_come(data) == Dedup(Column(data, "Type"))

classes_of(data) == Dedup(sorted(Column(data, "Type")))

\* LabelEncoder.transform([label])[0] for a label of classes_, and
\* LabelEncoder.inverse_transform([code])[0] for a code of 0..k-1.
transform(enc, label) == (CHOOSE i \in 1..Len(enc.classes_) : enc.classes_[i] = label) - 1
inverse_transform(enc, code) == enc.classes_[code + 1]

\* np.unique(y, return_counts=True)[1]
class_counts(data) ==
    Only({ [k \in 1..Len(cl) |-> Cardinality({i \in 1..Len(data) : data[i].Type = cl[k]})]
           : cl \in {classes_of(data)} })

\* ------------------------------------------------------------ estimators

\* An attribute holding None, an empty dict {} and an unfitted estimator.
NoneValue == [type |-> "NoneType"]
EmptyDict == [type |-> "dict"]
Unfitted(cls) == [type |-> cls, fitted |-> FALSE]

\* estimator.fit(...): the estimator of class cls fitted, inside the training
\* step `step`, for `target`, on the split of the cleaned frame `data`.
Fit(cls, step, target, data) ==
    [type |-> cls, fitted |-> TRUE, step |-> step, target |-> target, fit_on |-> data]

\* LabelEncoder.fit_transform(data['Type']) called from `step`.
fit_label_encoder(step, data) ==
    [type |-> "LabelEncoder", fitted |-> TRUE, step |-> step, classes_ |-> classes_of(data)]

\* train_test_split(..., test_size=0.2): the sizes of the two parts
\* (n_test = ceil(0.2 * n), n_train = n - n_test); n_test_half is the test
\* part of a split with test_size=0.5.
n_test_half(n) == (n + 1) \div 2
n_test_of(n) == (n + 4) \div 5
n_train_of(n) == n - n_test_of(n)

\* A split that accepts any number of rows.
split_raises_never(n) == FALSE

\* train_test_split raises ValueError when the training part would be empty.
split_raises(n) == n_train_of(n) = 0

\* With stratify=y the split also needs two rows of every class and room for
\* every class in each part.
stratified_split_raises(n, counts) ==
    \/ split_raises(n)
    \/ \E c \in 1..Len(counts) : counts[c] < 2
    \/ n_train_of(n) < Len(counts)
    \/ n_test_of(n) < Len(counts)

\* ------------------------------------------------------ EquipmentMLModel

\* EquipmentMLModel(): the object after construction.
init_model ==
    [ model_flowrate        |-> NoneValue,
      model_pressure        |-> NoneValue,
      model_temperature     |-> NoneValue,
      classifier_model      |-> NoneValue,
      label_encoder         |-> Unfitted("LabelEncoder"),
      scaler_regression     |-> Unfitted("StandardScaler"),
      scaler_classification |-> Unfitted("StandardScaler"),
      feature_names         |-> <<>>,
      is_trained            |-> FALSE,
      training_history      |-> [type |-> "dict", regression |-> EmptyDict,
                                 classification |-> EmptyDict] ]

\* What a call returns: the object afterwards, the exception it raised ("" when
\* it returned) and its return value.
Returned(self, value) == [self |-> self, raised |-> "", value |-> value]
Raised(self, exc)     == [self |-> self, raised |-> exc, value |-> NoneValue]

\* The errors the class raises itself.
NotTrained           == "ValueError: Model not trained yet"
ClassifierNotTrained == "ValueError: Classification model not trained yet"

\* The regressors tried for each target, in the order of the dict.
models_to_test == <<"RandomForestRegressor", "GradientBoostingRegressor", "LinearRegression">>

\* -np.inf, below every score.
neg_inf == -2

\* r2 > best on floats: False when either side is NaN.
float_gt(a, b) == ~isnull(a) /\ ~isnull(b) /\ a > b

\* r2_score(y_test, pred): NaN (with a warning) for fewer than two test rows,
\* else the score, which the data decides; r2 is the table of those scores.
r2_score(r2, target, k, n_test) == IF n_test < 2 THEN NaN ELSE r2[target][k]

\* One "for name, model in models_to_test.items()" loop: the model kept for
\* `target` and its score, from candidate k on, given the best so far.  A
\* candidate is fitted on X_train_scaled and the target's y_train: `rows` holds
\* the row numbers of the two.
RECURSIVE select_best(_, _, _, _, _, _, _, _)
select_best(k, best_score, best_model, r2, target, data, n_test, rows) ==
    IF k > Len(models_to_test) THEN [model |-> best_model, score |-> best_score]
    ELSE LET s == r2_score(r2, target, k, n_test)
         IN  IF float_gt(s, best_score)
             THEN select_best(k + 1, s,
                              rows @@ Fit(models_to_test[k], "regression", target, data),
                              r2, target, data, n_test, rows)
             ELSE select_best(k + 1, best_score, best_model, r2, target, data, n_test, rows)

\* prepare_data(df): cleans, fits the encoder, names the feature.
prepare_data(self, df) ==
    Only({ [ self |-> [self EXCEPT !.label_encoder = fit_label_encoder("regression", data),
                                   !.feature_names = <<"Type_Encoded">>],
             data |-> data ]
           : data \in {clean_data(df)} })

\* The metrics dict of train_regression_models: the R2 of the model kept for
\* each target, the sizes of the split and the labels.
regression_metrics(self, r2, n) ==
    LET score(m, target) ==
            IF n_test_of(n) < 2 THEN NaN
            ELSE r2[target][CHOOSE k \in 1..Len(models_to_test) : models_to_test[k] = m.type]
    IN  [ type             |-> "dict",
          flowrate         |-> [r2_score |-> score(self.model_flowrate, "flowrate")],
          pressure         |-> [r2_score |-> score(self.model_pressure, "pressure")],
          temperature      |-> [r2_score |-> score(self.model_temperature, "temperature")],
          training_samples |-> n_train_of(n),
          test_samples     |-> n_test_of(n),
          total_samples    |-> n,
          equipment_types  |-> self.label_encoder.classes_ ]

\* The row numbers of the set S, ascending.
ascending(S, n) == SelectSeq([i \in 1..n |-> i], LAMBDA i : i \in S)

\* The stratified split's share of n_draws rows for each class: proportional
\* to the counts, rounded down, the rows left over going to the classes with
\* the greatest remainders (a tie goes to the lower code here; the seeded
\* generator decides it).
approximate_mode(counts, n_draws) ==
    LET n       == SeqSum(counts)
        fl(c)   == (n_draws * counts[c]) \div n
        rm(c)   == (n_draws * counts[c]) % n
        need    == n_draws - SeqSum([c \in 1..Len(counts) |-> fl(c)])
        rank(c) == Cardinality({d \in 1..Len(counts) :
                                    rm(d) > rm(c) \/ (rm(d) = rm(c) /\ d < c)})
    IN  [c \in 1..Len(counts) |-> fl(c) + IF rank(c) < need THEN 1 ELSE 0]

\* The rows train_test_split(X, y, test_size=0.2, random_state=42[, stratify=y])
\* puts in the test part.  The seeded shuffle decides which; `take` stands for
\* its choice: the first rows or the last rows (of each class, when
\* stratified).
test_rows(y, counts, stratified, take) ==
    LET n    == Len(y)
        of(c) == ascending({i \in 1..n : y[i] = c - 1}, n)
        t(c)  == counts[c] - approximate_mode(counts, n_train_of(n))[c]
    IN  IF ~stratified
        THEN IF take = "head" THEN 1..n_test_of(n) ELSE (n - n_test_of(n) + 1)..n
        ELSE UNION { { of(c)[j] : j \in IF take = "head"
                                        THEN 1..t(c)
                                        ELSE (counts[c] - t(c) + 1)..counts[c] }
                     : c \in 1..Len(counts) }

\* The two parts of the split of the rows coded y.
train_test_split(y, counts, stratified, take) ==
    Only({ [ test       |-> test,
             train      |-> (1..Len(y)) \ test,
             stratified |-> stratified ]
           : test \in {test_rows(y, counts, stratified, take)} })

\* The second and third split made with the other choice of the shuffle, as
\* with a seed of their own.
split_of_target_reseeded(data, col, take) ==
    train_test_split(Column(data, col), <<>>, FALSE,
                     IF col = "Flowrate" THEN take
                     ELSE IF take = "head" THEN "tail" ELSE "head")

\* train_test_split(X, y_<target>, test_size=0.2, random_state=42): one of the
\* three splits.  The seed and the number of rows are the same in the three,
\* and so is the choice `take` of the shuffle.
split_of_target(data, col, take) == train_test_split(Column(data, col), <<>>, FALSE, take)

\* The three selection loops of train_regression_models on the cleaned frame
\* `data`: the model kept for each target.  X_train comes from the first
\* split, each y_train from the split of its target.
best_models(self, r2, data) ==
    Only({ [ flow |-> select_best(1, neg_inf, self.model_flowrate, r2, "flowrate",
                                  data, n_test_of(Len(data)),
                                  [X_rows |-> X.train, y_rows |-> X.train]),
             pres |-> select_best(1, neg_inf, self.model_pressure, r2, "pressure",
                                  data, n_test_of(Len(data)),
                                  [X_rows |-> X.train, y_rows |-> y_pres.train]),
             temp |-> select_best(1, neg_inf, self.model_temperature, r2, "temperature",
                                  data, n_test_of(Len(data)),
                                  [X_rows |-> X.train, y_rows |-> y_temp.train]) ]
           : X      \in {split_of_target(data, "Flowrate", r2.take)},
             y_pres \in {split_of_target(data, "Pressure", r2.take)},
             y_temp \in {split_of_target(data, "Temperature", r2.take)} })

\* The end of train_regression_models: self.model_flowrate.predict(...) raises
\* AttributeError on a model still None; otherwise the metrics are stored in
\* the history and returned.
regression_result(self, r2, n) ==
    IF NoneValue \in {self.model_flowrate, self.model_pressure, self.model_temperature}
    THEN Raised(self, "AttributeError")
    ELSE Only({ Returned([self EXCEPT !.training_history =
                            [k \in DOMAIN @ \cup {"regression"} |->
                                IF k = "regression" THEN metrics ELSE @[k]]],
                         metrics)
                : metrics \in {regression_metrics(self, r2, n)} })

\* train_regression_models after prepare_data: split, scaler, selection loops.
regression_fit(prep, r2) ==
    IF split_raises(Len(prep.data)) THEN Raised(prep.self, "ValueError")
    ELSE Only({ Only({ regression_result(s2, r2, Len(prep.data))
                       : s2 \in {[prep.self EXCEPT
                                    !.scaler_regression =
                                        Fit("StandardScaler", "regression", "Type_Encoded",
                                            prep.data),
                                    !.model_flowrate    = best.flow.model,
                                    !.model_pressure    = best.pres.model,
                                    !.model_temperature = best.temp.model]} })
                : best \in {best_models(prep.self, r2, prep.data)} })

\* train_regression_models(df), with the R2 scores r2 of the candidates.
train_regression_models(self, df, r2) ==
    Only({ regression_fit(prep, r2) : prep \in {prepare_data(self, df)} })

\* Stratifying whatever the counts are.
can_stratify_always(counts) == TRUE

\* all(count >= 2 for count in counts)
can_stratify(counts) == \A k \in 1..Len(counts) : counts[k] >= 2

\* y = label_encoder.fit_transform(data['Type']): the code of each row.
codes_of(enc, data) == [i \in 1..Len(data) |-> transform(enc, data[i].Type)]

\* y_test, and classifier_model.predict(X_test_scaled): a code the classifier
\* saw in training for each test row.  The data decide which; `voting` stands
\* for it: "fitted" gives each row its own code when the training part has
\* it, "constant" the lowest code of the training part to every row.
y_test_of(y, split) ==
    Only({ [k \in 1..Len(ts) |-> y[ts[k]]] : ts \in {ascending(split.test, Len(y))} })

y_pred_of(y, split, voting) ==
    Only({ Only({ [k \in 1..Len(ts) |->
                        IF voting = "fitted" /\ y[ts[k]] \in seen THEN y[ts[k]]
                        ELSE CHOOSE c \in seen : \A d \in seen : c <= d]
                  : seen \in {{y[i] : i \in split.train}} })
           : ts \in {ascending(split.test, Len(y))} })

\* confusion_matrix(y_true, y_pred): one row and one column for each code that
\* occurs in y_true or in y_pred, ascending; entry [i][j] counts the samples
\* of code i predicted as code j.
confusion_matrix(y_true, y_pred) ==
    Only({ [i \in 1..Len(labels) |->
                [j \in 1..Len(labels) |->
                    Cardinality({t \in 1..Len(y_true) :
                                    y_true[t] = labels[i] /\ y_pred[t] = labels[j]})]]
           : labels \in {Dedup(sorted(y_true \o y_pred))} })

\* accuracy_score(y_true, y_pred), as the number of hits among the samples.
accuracy_score(y_true, y_pred) ==
    [ correct |-> Cardinality({t \in 1..Len(y_true) : y_true[t] = y_pred[t]}),
      samples |-> Len(y_true) ]

\* The metrics dict of train_classification_model.
classification_metrics(self, split, y_true, y_pred) ==
    [ type             |-> "dict",
      accuracy         |-> accuracy_score(y_true, y_pred),
      training_samples |-> Cardinality(split.train),
      test_samples     |-> Cardinality(split.test),
      equipment_types  |-> self.label_encoder.classes_,
      confusion_matrix |-> confusion_matrix(y_true, y_pred) ]

\* train_classification_model from the scaler on, given the split: the scaler
\* and the classifier are fitted on the training rows, the test rows give the
\* metrics.
classification_result(self, data, y, split, voting) ==
    Only({ Returned([self EXCEPT
                        !.scaler_classification =
                            Fit("StandardScaler", "classification", "Type", data),
                        !.classifier_model =
                            [rows |-> split.train] @@
                            Fit("RandomForestClassifier", "classification", "Type", data),
                        !.training_history =
                            [k \in DOMAIN @ \cup {"classification"} |->
                                IF k = "classification" THEN metrics ELSE @[k]]],
                    metrics)
           : metrics \in {classification_metrics(self, split, y_test_of(y, split),
                                                  y_pred_of(y, split, voting))} })

\* train_classification_model after the encoder is fitted: the choice of the
\* split, the split (which raises ValueError when it cannot be made), and the
\* rest.
classification_fit(self, data, counts, r2) ==
    IF can_stratify(counts) /\ stratified_split_raises(Len(data), counts)
    THEN Raised(self, "ValueError")
    ELSE IF ~can_stratify(counts) /\ split_raises(Len(data))
    THEN Raised(self, "ValueError")
    ELSE Only({ classification_result(
                    self, data, y,
                    train_test_split(y, counts, can_stratify(counts), r2.take), r2.voting)
                : y \in {codes_of(self.label_encoder, data)} })

\* train_classification_model(df), with the outcomes r2 that the data decide.
train_classification_model(self, df, r2) ==
    Only({ Only({ classification_fit(s1, data, counts, r2)
                  : s1 \in {[self EXCEPT !.label_encoder =
                                fit_label_encoder("classification", data)]},
                    counts \in {class_counts(data)} })
           : data \in {clean_data(df)} })

\* The end of train: the flag and the returned dict.
train_result(self, reg_metrics, cls_metrics) ==
    Returned([self EXCEPT !.is_trained = TRUE],
             [regression |-> reg_metrics, classification |-> cls_metrics,
              status |-> "success"])

\* train with the two steps in the other order.
train_classification_first(self, df, r2) ==
    Only({ IF cls.raised # "" THEN Raised(cls.self, cls.raised)
           ELSE Only({ IF reg.raised # "" THEN Raised(reg.self, reg.raised)
                       ELSE train_result(reg.self, reg.value, cls.value)
                       : reg \in {train_regression_models(cls.self, df, r2)} })
           : cls \in {train_classification_model(self, df, r2)} })

\* train setting the trained flag before the two steps.
train_flag_first(self, df, r2) ==
    Only({ IF reg.raised # "" THEN Raised(reg.self, reg.raised)
           ELSE Only({ IF cls.raised # "" THEN Raised(cls.self, cls.raised)
                       ELSE train_result(cls.self, reg.value, cls.value)
                       : cls \in {train_classification_model(reg.self, df, r2)} })
           : reg \in {train_regression_models([self EXCEPT !.is_trained = TRUE], df, r2)} })

\* train with the classification step's exception caught and passed over.
train_swallowing(self, df, r2) ==
    Only({ IF reg.raised # "" THEN Raised(reg.self, reg.raised)
           ELSE Only({ train_result(cls.self, reg.value,
                                    IF cls.raised # "" THEN EmptyDict ELSE cls.value)
                       : cls \in {train_classification_model(reg.self, df, r2)} })
           : reg \in {train_regression_models(self, df, r2)} })

\* train(df): regression, then classification, then the trained flag.
train(self, df, r2) ==
    Only({ IF reg.raised # "" THEN Raised(reg.self, reg.raised)
           ELSE Only({ IF cls.raised # "" THEN Raised(cls.self, cls.raised)
                       ELSE train_result(cls.self, reg.value, cls.value)
                       : cls \in {train_classification_model(reg.self, df, r2)} })
           : reg \in {train_regression_models(self, df, r2)} })

\* predict falling back to the last code instead of 0.
encode_or_last(enc, equipment_type) ==
    IF enc.fitted /\ \E i \in 1..Len(enc.classes_) : enc.classes_[i] = equipment_type
    THEN (CHOOSE i \in 1..Len(enc.classes_) : enc.classes_[i] = equipment_type) - 1
    ELSE IF enc.fitted /\ Len(enc.classes_) > 0 THEN Len(enc.classes_) - 1 ELSE 0

\* label_encoder.transform([equipment_type])[0], with predict's fallback to 0
\* on ValueError (an unseen label, or an encoder never fitted).
encode_or_zero(enc, equipment_type) ==
    IF enc.fitted /\ \E i \in 1..Len(enc.classes_) : enc.classes_[i] = equipment_type
    THEN (CHOOSE i \in 1..Len(enc.classes_) : enc.classes_[i] = equipment_type) - 1
    ELSE 0

\* model.predict(scaler.transform(x)) as a term.
Prediction(model, scaler, x) == [model |-> model, scaler |-> scaler, x |-> x]

\* predict that learns a label it has not seen: the encoder gets the label as a
\* further class before the prediction is made.
predict_learning(self, equipment_type) ==
    IF ~self.is_trained THEN Raised(self, NotTrained)
    ELSE IF self.label_encoder.fitted
            /\ ~\E i \in 1..Len(self.label_encoder.classes_) :
                    self.label_encoder.classes_[i] = equipment_type
    THEN Returned([self EXCEPT !.label_encoder.classes_ = Append(@, equipment_type)],
                  [equipment_type |-> equipment_type])
    ELSE Returned(self, [equipment_type |-> equipment_type])

\* predict(equipment_type)
predict(self, equipment_type) ==
    LET code == encode_or_zero(self.label_encoder, equipment_type)
        out(m) == Prediction(m, self.scaler_regression, code)
    IN  IF ~self.is_trained THEN Raised(self, NotTrained)
        ELSE IF ~self.scaler_regression.fitted THEN Raised(self, "NotFittedError")
        ELSE IF NoneValue \in {self.model_flowrate, self.model_pressure, self.model_temperature}
        THEN Raised(self, "AttributeError")
        ELSE Returned(self, [ equipment_type        |-> equipment_type,
                              predicted_flowrate    |-> out(self.model_flowrate),
                              predicted_pressure    |-> out(self.model_pressure),
                              predicted_temperature |-> out(self.model_temperature) ])

\* predict_type with the trained flag as its only guard.
predict_type_flag_only(self, flowrate, pressure, temperature) ==
    IF ~self.is_trained THEN Raised(self, ClassifierNotTrained)
    ELSE IF ~self.scaler_classification.fitted THEN Raised(self, "NotFittedError")
    ELSE Returned(self, [input_parameters |-> <<flowrate, pressure, temperature>>])

\* predict_type(flowrate, pressure, temperature)
predict_type(self, flowrate, pressure, temperature) ==
    LET x == <<flowrate, pressure, temperature>>
    IN  IF ~self.is_trained \/ self.classifier_model = NoneValue
        THEN Raised(self, ClassifierNotTrained)
        ELSE IF ~self.scaler_classification.fitted THEN Raised(self, "NotFittedError")
        ELSE IF ~self.label_encoder.fitted THEN Raised(self, "NotFittedError")
        ELSE Returned(self, [ predicted_type   |-> [code |-> Prediction(self.classifier_model,
                                                             self.scaler_classification, x),
                                                    decoded_by |-> self.label_encoder],
                              input_parameters |-> x ])

\* hasattr(model, 'feature_importances_'): the fitted tree ensembles have it.
has_feature_importances(m) ==
    m.type \in {"RandomForestRegressor", "GradientBoostingRegressor", "RandomForestClassifier"}

\* get_feature_importance(): the keys of the returned dict.
get_feature_importance(self) ==
    IF ~self.is_trained THEN Raised(self, NotTrained)
    ELSE Returned(self,
            {k \in {"flowrate", "pressure", "temperature", "classification"} :
                has_feature_importances(
                    CASE k = "flowrate"       -> self.model_flowrate
                      [] k = "pressure"       -> self.model_pressure
                      [] k = "temperature"    -> self.model_temperature
                      [] k = "classification" -> self.classifier_model)})

\* ------------------------------------------------------------ persistence

\* save_model pickling the models, the scalers, the encoder and the flag, with
\* an empty feature_names and without the history.
model_data_of_estimators(self) ==
    [ model_flowrate        |-> self.model_flowrate,
      model_pressure        |-> self.model_pressure,
      model_temperature     |-> self.model_temperature,
      classifier_model      |-> self.classifier_model,
      scaler_regression     |-> self.scaler_regression,
      scaler_classification |-> self.scaler_classification,
      label_encoder         |-> self.label_encoder,
      feature_names         |-> <<>>,
      is_trained            |-> self.is_trained ]

\* The dict save_model pickles.
model_data_of(self) ==
    [ model_flowrate        |-> self.model_flowrate,
      model_pressure        |-> self.model_pressure,
      model_temperature     |-> self.model_temperature,
      classifier_model      |-> self.classifier_model,
      scaler_regression     |-> self.scaler_regression,
      scaler_classification |-> self.scaler_classification,
      label_encoder         |-> self.label_encoder,
      feature_names         |-> self.feature_names,
      training_history      |-> self.training_history,
      is_trained            |-> self.is_trained ]

\* A file is the blocks written to it so far; block i of a pickle of d is
\* [data |-> d, part |-> i].  A hole is a block no writer has filled.
NoFile    == [exists |-> FALSE, blocks |-> <<>>]
EmptyFile == [exists |-> TRUE, blocks |-> <<>>]
Hole      == [data |-> NoneValue, part |-> 0]
Block(d, i) == [data |-> d, part |-> i]
WholeFile(d) == [exists |-> TRUE, blocks |-> [i \in 1..NumChunks |-> Block(d, i)]]

\* open(filepath, 'ab'): creates, keeps what is there.
open_ab(file) == [file EXCEPT !.exists = TRUE]

\* open(filepath, 'wb'): creates or truncates.
open_wb(file) == EmptyFile

\* f.write of block i at the writer's own offset i - 1.
write_block(file, d, i) ==
    [file EXCEPT !.blocks =
        [k \in 1..(IF Len(@) > i THEN Len(@) ELSE i) |->
            IF k = i THEN Block(d, i) ELSE IF k <= Len(@) THEN @[k] ELSE Hole]]

\* pickle.load succeeds on the complete pickle of one dict and on nothing else.
is_whole_pickle(file) ==
    /\ Len(file.blocks) = NumChunks
    /\ \A k \in 1..NumChunks : file.blocks[k].part = k
    /\ \A k \in 1..NumChunks : file.blocks[k].data = file.blocks[1].data

\* save_model without the check of the flag.
save_model_unchecked(self, file, written) ==
    LET d == model_data_of(self)
        RECURSIVE put(_, _)
        put(f, i) == IF i > written THEN f ELSE put(write_block(f, d, i), i + 1)
    IN  [ self   |-> self,
          raised |-> IF written < NumChunks THEN "OSError" ELSE "",
          file   |-> put(open_wb(file), 1) ]

\* save_model(filepath) run without interruption, the write failing after
\* `written` blocks (written = NumChunks: no failure).
save_model(self, file, written) ==
    LET d == model_data_of(self)
        RECURSIVE put(_, _)
        put(f, i) == IF i > written THEN f ELSE put(write_block(f, d, i), i + 1)
    IN  IF ~self.is_trained THEN [self |-> self, raised |-> NotTrained, file |-> file]
        ELSE [ self   |-> self,
               raised |-> IF written < NumChunks THEN "OSError" ELSE "",
               file   |-> put(open_wb(file), 1) ]

\* load_model reading every key with model_data[key].
load_fields_all_required ==
    [k \in 1..10 |->
        [key |-> <<"model_flowrate", "model_pressure", "model_temperature", "classifier_model",
                   "scaler_regression", "scaler_classification", "label_encoder",
                   "feature_names", "training_history", "is_trained">>[k],
         required |-> TRUE, default |-> NoneValue]]

\* The assignments of load_model in order: model_data[key] for a required key,
\* model_data.get(key, default) for the others.
load_fields ==
    << [key |-> "model_flowrate",        required |-> TRUE,  default |-> NoneValue],
       [key |-> "model_pressure",        required |-> TRUE,  default |-> NoneValue],
       [key |-> "model_temperature",     required |-> TRUE,  default |-> NoneValue],
       [key |-> "classifier_model",      required |-> FALSE, default |-> NoneValue],
       [key |-> "scaler_regression",     required |-> FALSE, default |-> Unfitted("StandardScaler")],
       [key |-> "scaler_classification", required |-> FALSE, default |-> Unfitted("StandardScaler")],
       [key |-> "label_encoder",         required |-> TRUE,  default |-> NoneValue],
       [key |-> "feature_names",         required |-> TRUE,  default |-> NoneValue],
       [key |-> "training_history",      required |-> FALSE, default |-> EmptyDict],
       [key |-> "is_trained",            required |-> TRUE,  default |-> NoneValue] >>

RECURSIVE restore_fields(_, _, _)
restore_fields(self, d, k) ==
    IF k > Len(load_fields) THEN Returned(self, NoneValue)
    ELSE LET f == load_fields[k]
         IN  IF f.key \in DOMAIN d
             THEN restore_fields([self EXCEPT ![f.key] = d[f.key]], d, k + 1)
             ELSE IF f.required THEN Raised(self, "KeyError")
             ELSE restore_fields([self EXCEPT ![f.key] = f.default], d, k + 1)

\* load_model returning quietly when the file is missing.
load_model_missing_ok(self, file) ==
    IF ~file.exists THEN Returned(self, NoneValue)
    ELSE IF ~is_whole_pickle(file) THEN Raised(self, "UnpicklingError")
    ELSE restore_fields(self, file.blocks[1].data, 1)

\* load_model(filepath)
load_model(self, file) ==
    IF ~file.exists THEN Raised(self, "FileNotFoundError")
    ELSE IF ~is_whole_pickle(file) THEN Raised(self, "UnpicklingError")
    ELSE restore_fields(self, file.blocks[1].data, 1)

\* ------------------------------------------------------------------ inputs

Users == 1..NumUsers

\* The web model follows two requests (or runs of the command), each served by
\* its own worker, in every interleaving of their steps.
Procs == {1, 2}

\* Labels asked of predict: two seen in FrameTen, one seen nowhere.
Labels == {1, 2, 9}

\* R2 scores of the three candidates, per target: the data decides them, so
\* they are an input of a training call.
R2Table(row) ==
    [ flowrate    |-> row,
      pressure    |-> <<row[2], row[3], row[1]>>,
      temperature |-> <<row[3], row[1], row[2]>> ]

\* What a training call measures: the R2 scores, the rows the seeded shuffle
\* puts in the test part, and the classifier's predictions for them.
Measured(row, take, voting) == [take |-> take, voting |-> voting] @@ R2Table(row)

R2Tables == {Measured(<<1, 1, 0>>, "tail", "fitted"), Measured(<<0, 1, 0>>, "head", "constant")}

\* --------------------------------------------------------------- web layer

\* The rows of a CSV with its equipment named after the uploading user.
Owned(frame, user) == [i \in 1..Len(frame) |-> [Name |-> user] @@ frame[i]]

\* The uploads of the web model: a CSV without the Pressure column; ten rows
\* of two types; six rows, two each of three further types; five rows of one
\* pressure.
CsvFiles(user) ==
    { [complete |-> FALSE, frame |-> <<>>],
      [complete |-> TRUE, frame |-> Owned(FrameTen, user)],
      [complete |-> TRUE, frame |-> Owned(
            << Row(3, 20, 10, 40), Row(3, 24, 12, 44), Row(4, 40, 20, 60),
               Row(4, 44, 24, 64), Row(5, 60, 30, 80), Row(5, 64, 36, 84) >>, user)],
      [complete |-> TRUE, frame |-> Owned(
            << Row(1, 20, 20, 40), Row(2, 24, 20, 44), Row(1, 28, 20, 48),
               Row(2, 22, 20, 42), Row(1, 26, 20, 46) >>, user)] }

\* process_csv_file(csv_file): a CSV lacking a required column raises
\* ValueError; otherwise the numeric columns are median-filled, outliers are
\* removed when there are more than five rows, and the rows become raw_data.
process_csv_file_computed(csv) ==
    IF ~csv.complete THEN [raised |-> "ValueError", count |-> 0, raw_data |-> <<>>]
    ELSE Only({ Only({ [raised |-> "", count |-> Len(df), raw_data |-> df]
                       : df \in {IF Len(filled) > 5 THEN remove_outliers(filled)
                                                    ELSE filled} })
                : filled \in {fillna_median(csv.frame)} })

\* process_csv_file is a pure function of the file: its value on the uploads
\* of the web model is tabulated once.
ProcessedTable ==
    [csv \in UNION {CsvFiles(user) : user \in Users} |-> process_csv_file_computed(csv)]

process_csv_file(csv) ==
    IF csv \in DOMAIN ProcessedTable THEN ProcessedTable[csv] ELSE process_csv_file_computed(csv)

\* DatasetHistory.cleanup_old_records(request.user, keep_last=5)
keep_last == 5

\* "if len(raw_data) >= 10": the least number of records trained on.
min_samples == 10

\* DatasetHistory.objects.create(...): the row of an upload; ml_metrics takes
\* its default, {}.
DatasetRow(id, user, processed) ==
    [ id         |-> id,
      user       |-> user,
      count      |-> processed.count,
      raw_data   |-> processed.raw_data,
      ml_metrics |-> EmptyDict ]

Reverse(s) == [k \in 1..Len(s) |-> s[Len(s) + 1 - k]]

\* DatasetHistory.objects.filter(user=user), in the order of Meta.ordering:
\* newest first (db holds the rows oldest first).
filter_user(db, user) == Reverse(SelectSeq(db, LAMBDA r : r.user = user))

\* cleanup_old_records(user, keep): deletes the user's rows after the newest
\* `keep`.
cleanup_old_records(db, user, keep) ==
    LET mine   == filter_user(db, user)
        doomed == {mine[k].id : k \in (keep + 1)..Len(mine)}
    IN  IF Len(mine) > keep THEN SelectSeq(db, LAMBDA r : r.id \notin doomed) ELSE db

\* "for ds in datasets: raw_data.extend(ds.raw_data)"
RECURSIVE collect_raw_data(_)
collect_raw_data(rows) ==
    IF rows = <<>> THEN <<>> ELSE Head(rows).raw_data \o collect_raw_data(Tail(rows))

\* Model.save() of an instance that has an id: the row with that id is
\* updated, or inserted when no such row is left.
save_row(db, row) ==
    IF \E k \in 1..Len(db) : db[k].id = row.id
    THEN [k \in 1..Len(db) |-> IF db[k].id = row.id THEN row ELSE db[k]]
    ELSE Append(db, row)

\* "for ds in datasets: ds.ml_metrics = ml_metrics_flat; ds.save()"
RECURSIVE save_rows(_, _, _)
save_rows(db, rows, ml_metrics) ==
    IF rows = <<>> THEN db
    ELSE save_rows(save_row(db, [Head(rows) EXCEPT !.ml_metrics = ml_metrics]),
                   Tail(rows), ml_metrics)

\* ml_metrics_flat: the regression summaries at the top level, the three
\* per-target dicts, and the classification metrics as they are.
flatten(ml_metrics) ==
    [ type             |-> "dict",
      training_samples |-> ml_metrics.regression.training_samples,
      test_samples     |-> ml_metrics.regression.test_samples,
      total_samples    |-> ml_metrics.regression.total_samples,
      equipment_types  |-> ml_metrics.regression.equipment_types,
      flowrate         |-> ml_metrics.regression.flowrate,
      pressure         |-> ml_metrics.regression.pressure,
      temperature      |-> ml_metrics.regression.temperature,
      classification   |-> ml_metrics.classification ]

\* Every bundle in one file.
model_path_shared(user) == 1

\* os.path.join(model_dir, f'model_user_{user.id}.pkl'): one path per user.
model_path(user) == user

\* A request, or a run of the command, being served: its handler (kind), the
\* authenticated user (for the command: the user of the current iteration),
\* its argument, the handler's position (pc) and its local variables; status
\* and body are the response once pc is "done".
Request(kind, user, arg, pc) ==
    [ kind       |-> kind,
      user       |-> user,
      arg        |-> arg,
      pc         |-> pc,
      dataset    |-> NoneValue,   \* upload_csv: the instance created
      datasets   |-> <<>>,        \* retrain_ml: the rows the queryset fetched
      ml_model   |-> NoneValue,
      ml_metrics |-> NoneValue,
      written    |-> 0,           \* save_model: blocks written so far
      raised     |-> "",          \* the exception the training block raised
      saved      |-> FALSE,       \* save_model returned
      status     |-> 0,
      body       |-> NoneValue ]

Idle == Request("", 0, NoneValue, "idle")

\* Response(body, status=...): the handler returns; its locals are dropped.
Response(req, status, body) ==
    [req EXCEPT !.pc = "done", !.status = status, !.body = body,
                !.dataset = NoneValue, !.datasets = <<>>, !.ml_model = NoneValue,
                !.ml_metrics = NoneValue, !.written = 0]

\* The R2 scores the web model's trainings measure.
WebR2 == Measured(<<0, 1, 0>>, "head", "constant")

\* EquipmentMLModel().train(df) is a pure function of df: its value on the
\* records of one upload is tabulated once.
TrainedTable ==
    [raw_data \in {ProcessedTable[csv].raw_data : csv \in DOMAIN ProcessedTable} |->
        train(init_model, raw_data, WebR2)]

\* The training block shared by the handlers: EquipmentMLModel().train(df) on
\* the records raw_data, then the flattening of the metrics.  An exception
\* leaves the block (to `failed`); otherwise save_model comes next.
train_block(req, raw_data, r2, failed) ==
    Only({ IF res.raised # ""
           THEN [req EXCEPT !.raised = res.raised, !.pc = failed]
           ELSE [req EXCEPT !.ml_model = res.self, !.ml_metrics = res.value, !.pc = "open"]
           : res \in {IF r2 = WebR2 /\ raw_data \in DOMAIN TrainedTable
                      THEN TrainedTable[raw_data]
                      ELSE train(init_model, raw_data, r2)} })

\* upload_csv from "Auto-train ML model" to save_model: the records of all the
\* user's datasets, and training when there are at least ten.
upload_auto_train(req, db, r2) ==
    Only({ IF Len(raw_data) >= min_samples
           THEN Only({ IF t.pc = "open" THEN [t EXCEPT !.ml_metrics = flatten(@)] ELSE t
                       : t \in {train_block(req, raw_data, r2, "respond")} })
           ELSE [req EXCEPT !.pc = "respond"]
           : raw_data \in {collect_raw_data(filter_user(db, req.user))} })

\* upload_csv with the training block's exception passed on to the handler's
\* own "except Exception", which answers 500.
upload_response_or_error(req) ==
    IF req.raised # ""
    THEN Response(req, 500, "An error occurred")
    ELSE Response(req, 201,
                  [ id         |-> req.dataset.id,
                    count      |-> req.dataset.count,
                    ml_trained |-> req.ml_metrics # NoneValue,
                    ml_metrics |-> req.ml_metrics ])

\* upload_csv's response: 201 with the statistics of the upload, and with
\* ml_metrics and ml_trained when ml_metrics is set ("if ml_metrics:").
upload_response(req) ==
    Response(req, 201,
             [ id         |-> req.dataset.id,
               count      |-> req.dataset.count,
               ml_trained |-> req.ml_metrics # NoneValue,
               ml_metrics |-> req.ml_metrics ])

\* train_model up to save_model: the dataset asked for (order_by('-timestamp')
\* names no field of DatasetHistory, so the branch without a dataset_id raises
\* FieldError), the ten-record threshold, training.
train_model_start(req, db, r2) ==
    IF req.arg = 0 THEN Response([req EXCEPT !.raised = "FieldError"], 500, "Error training model")
    ELSE IF ~\E k \in 1..Len(db) : db[k].id = req.arg /\ db[k].user = req.user
    THEN Response(req, 404, "Dataset not found")
    ELSE Only({ IF Len(raw_data) < min_samples
                THEN Response(req, 400, "Insufficient data for training")
                ELSE Only({ IF t.pc = "open" THEN t
                            ELSE Response(t, 500, "Error training model")
                            : t \in {train_block(req, raw_data, r2, "failed")} })
                : raw_data \in {db[CHOOSE k \in 1..Len(db) : db[k].id = req.arg].raw_data} })

\* train_model's responses after save_model returned or raised.
train_model_response(req) ==
    IF req.saved
    THEN Response(req, 200, [metrics |-> req.ml_metrics, model_saved |-> TRUE])
    ELSE Response(req, 500, "Error training model")

\* predict_parameters from load_model on: a fresh object loads the bundle and
\* predicts; any exception is answered with 500.
predict_parameters_load(req, file) ==
    Only({ IF loaded.raised # ""
           THEN Response([req EXCEPT !.raised = loaded.raised], 500, "Error making prediction")
           ELSE Only({ IF res.raised # ""
                       THEN Response([req EXCEPT !.raised = res.raised], 500,
                                     "Error making prediction")
                       ELSE Response(req, 200, res.value)
                       : res \in {predict(loaded.self, req.arg)} })
           : loaded \in {load_model(init_model, file)} })

\* retrain_ml, one iteration of "for user in users" up to save_model: no
\* dataset or fewer than ten records: continue; else training.
retrain_collect(req, db, r2) ==
    Only({ IF datasets = <<>> \/ Len(collect_raw_data(datasets)) < min_samples
           THEN [req EXCEPT !.pc = "next"]
           ELSE Only({ IF t.pc = "open" THEN [t EXCEPT !.ml_metrics = flatten(@)] ELSE t
                       : t \in {train_block([req EXCEPT !.datasets = datasets],
                                            collect_raw_data(datasets), r2, "next")} })
           : datasets \in {filter_user(db, req.user)} })

\* retrain_ml: the next iteration of the loop over the users, or the end.
retrain_next(req, n_users) ==
    IF req.user < n_users
    THEN Request("retrain_ml", req.user + 1, NoneValue, "collect")
    ELSE Response(req, 0, NoneValue)

\* ------------------------------------------------------------------- state

VARIABLES
    obj,      \* object model: the EquipmentMLModel under test
    last,     \* object model: the last call made on obj and how it ended
    ncalls,   \* object model: calls made so far
    files,    \* the bundle file model_user_<u>.pkl of each user u
    db,       \* web model: the DatasetHistory rows, oldest first
    procs,    \* web model: the request each worker is serving
    uploads   \* web model: DatasetHistory rows created so far (the last id)

vars == <<ncalls, obj, last, files, db, procs, uploads>>

web_vars == <<db, procs, uploads>>

\* The path the object model saves to and loads from.
ObjPath == 1

\* The last call: the method, its argument, the object it was made on, the
\* exception it raised and the value it returned.
NoCall == [op |-> "", arg |-> NoneValue, before |-> NoneValue, raised |-> "", value |-> NoneValue]

Called(op, arg, before, res) ==
    [op |-> op, arg |-> arg, before |-> before, raised |-> res.raised, value |-> res.value]

\* ------------------------------------------------------- the object model

\* A bundle written before the classifier, the scalers and the history were
\* added to the pickled dict.
OldBundle(self) ==
    LET d == model_data_of(self)
    IN  [k \in DOMAIN d \ {"classifier_model", "scaler_regression",
                           "scaler_classification", "training_history"} |-> d[k]]

SampleTrained == train(init_model, FrameTen, Measured(<<1, 1, 0>>, "tail", "fitted")).self

\* The object is fresh or was trained before; the file at the path is missing
\* or holds an old bundle.
ObjInit ==
    /\ obj \in {init_model, SampleTrained}
    /\ last = NoCall
    /\ ncalls = 0
    /\ \E f \in {NoFile, WholeFile(OldBundle(SampleTrained))} :
            files = [u \in Users |-> IF u = ObjPath THEN f ELSE NoFile]
    /\ db = <<>>
    /\ procs = [p \in Procs |-> Idle]
    /\ uploads = 0

\* A further call may be made on the object.
CanCall == ncalls < MaxCalls

Call(op, arg, res) ==
    /\ CanCall
    /\ ncalls' = ncalls + 1
    /\ obj' = res.self
    /\ last' = Called(op, arg, obj, res)
    /\ UNCHANGED web_vars

CallNew ==
    /\ CanCall
    /\ Call("__init__", NoneValue, Returned(init_model, NoneValue))
    /\ UNCHANGED files

CallTrain ==
    /\ CanCall
    /\ \E df \in Frames, r2 \in R2Tables :
            \E res \in {train(obj, df, r2)} : Call("train", df, res)
    /\ UNCHANGED files

CallTrainRegression ==
    /\ CanCall
    /\ \E df \in Frames, r2 \in R2Tables :
            \E res \in {train_regression_models(obj, df, r2)} :
                Call("train_regression_models", df, res)
    /\ UNCHANGED files

CallTrainClassification ==
    /\ CanCall
    /\ \E df \in Frames, r2 \in R2Tables :
            \E res \in {train_classification_model(obj, df, r2)} :
                Call("train_classification_model", df, res)
    /\ UNCHANGED files

CallPredict ==
    /\ CanCall
    /\ \E t \in Labels : \E res \in {predict(obj, t)} : Call("predict", t, res)
    /\ UNCHANGED files

CallPredictType ==
    /\ CanCall
    /\ \E res \in {predict_type(obj, 20, 10, 40)} : Call("predict_type", NoneValue, res)
    /\ UNCHANGED files

CallGetFeatureImportance ==
    /\ CanCall
    /\ \E res \in {get_feature_importance(obj)} : Call("get_feature_importance", NoneValue, res)
    /\ UNCHANGED files

CallSaveModel ==
    /\ CanCall
    /\ \E written \in 0..NumChunks :
        \E res \in {save_model(obj, files[ObjPath], written)} :
            /\ Call("save_model", written, [self |-> res.self, raised |-> res.raised, value |-> NoneValue])
            /\ files' = [files EXCEPT ![ObjPath] = res.file]

CallLoadModel ==
    /\ CanCall
    /\ \E res \in {load_model(obj, files[ObjPath])} : Call("load_model", NoneValue, res)
    /\ UNCHANGED files

ObjNext ==
    \/ CallNew
    \/ CallTrain
    \/ CallTrainRegression
    \/ CallTrainClassification
    \/ CallPredict
    \/ CallPredictType
    \/ CallGetFeatureImportance
    \/ CallSaveModel
    \/ CallLoadModel

SpecObject == ObjInit /\ [][ObjNext]_vars

\* ---------------------------------------------------- the loading model

\* The keys of the pickled dict.
BundleKeys == {load_fields[k].key : k \in 1..Len(load_fields)}

\* A stored bundle holding only the keys of K.
StoredBundle(self, K) == LET d == model_data_of(self) IN [k \in K |-> d[k]]

\* The object is fresh or already trained; the file at the path is missing or
\* holds a bundle with any subset of the keys.
LoadInit ==
    /\ obj \in {init_model, train(init_model, FrameSix \o FrameSix,
                                  Measured(<<0, 1, 0>>, "head", "constant")).self}
    /\ last = NoCall
    /\ ncalls = 0
    /\ \E f \in {NoFile} \cup {WholeFile(StoredBundle(SampleTrained, K)) : K \in SUBSET BundleKeys} :
            files = [u \in Users |-> IF u = ObjPath THEN f ELSE NoFile]
    /\ db = <<>>
    /\ procs = [p \in Procs |-> Idle]
    /\ uploads = 0

LoadNext ==
    \/ CallLoadModel
    \/ CallPredict
    \/ CallPredictType
    \/ CallGetFeatureImportance

SpecLoad == LoadInit /\ [][LoadNext]_vars

\* -------------------------------------------------- the cleaning model

\* clean_data(df) called on the object; it reads and writes no attribute.
CallCleanData ==
    /\ CanCall
    /\ \E df \in CleanFrames :
            \E res \in {Returned(obj, clean_data(df))} : Call("clean_data", df, res)
    /\ UNCHANGED files

\* process_csv_file(csv_file) called on a CSV that has the five columns.
CallProcessCsvFile ==
    /\ CanCall
    /\ \E df \in CleanFrames :
            \E processed \in {process_csv_file([complete |-> TRUE, frame |-> df])} :
                Call("process_csv_file", df,
                     [self |-> obj, raised |-> processed.raised, value |-> processed.raw_data])
    /\ UNCHANGED files

CleanInit ==
    /\ obj = init_model
    /\ last = NoCall
    /\ ncalls = 0
    /\ files = [u \in Users |-> NoFile]
    /\ db = <<>>
    /\ procs = [p \in Procs |-> Idle]
    /\ uploads = 0

CleanNext ==
    \/ CallCleanData
    \/ CallProcessCsvFile

SpecClean == CleanInit /\ [][CleanNext]_vars

\* ----------------------------------------------------------- the web model

\* The history the web model starts from: user 1 uploaded four CSVs of one row
\* and then one of ten rows, which trained the first bundle; the other users
\* have uploaded nothing.
SeedRows ==
    [k \in 1..5 |->
        DatasetRow(k, 1, process_csv_file(
            [complete |-> TRUE,
             frame    |-> IF k < 5 THEN Owned(<<Row(1, 20 + 2 * k, 10 + 2 * k, 40)>>, 1)
                                   ELSE Owned(FrameTen, 1)]))]

SeedTrained == upload_auto_train(Request("upload_csv", 1, NoneValue, "train"), SeedRows, WebR2)

SeedDb == save_row(SeedRows, [SeedRows[5] EXCEPT !.ml_metrics = SeedTrained.ml_metrics])

WebInit ==
    /\ obj = init_model
    /\ last = NoCall
    /\ ncalls = 0
    /\ files = [path \in Users |->
                    IF path = model_path(1) THEN WholeFile(model_data_of(SeedTrained.ml_model))
                                            ELSE NoFile]
    /\ db = SeedDb
    /\ procs = [p \in Procs |-> Idle]
    /\ uploads = Len(SeedRows)

obj_vars == <<obj, last, ncalls>>

\* Worker p takes the next request: the first worker that has none.
Free(p) ==
    /\ procs[p].pc = "idle"
    /\ \A q \in Procs : q < p => procs[q].pc # "idle"

\* Worker p moves to `req`.
Goto(p, req) == procs' = [procs EXCEPT ![p] = req]

\* upload_csv: process_csv_file and DatasetHistory.objects.create; a CSV that
\* cannot be processed is answered with 400.
UploadCsv(p) ==
    /\ Free(p)
    /\ \E user \in Users : \E csv \in CsvFiles(user) :
        \E processed \in {process_csv_file(csv)} :
            IF processed.raised # ""
            THEN /\ Goto(p, Response(Request("upload_csv", user, NoneValue, "start"),
                                     400, "Error processing CSV file"))
                 /\ UNCHANGED <<db, uploads>>
            ELSE \E dataset \in {DatasetRow(uploads + 1, user, processed)} :
                 /\ db' = Append(db, dataset)
                 /\ uploads' = uploads + 1
                 /\ Goto(p, [Request("upload_csv", user, NoneValue, "cleanup")
                                EXCEPT !.dataset = dataset])
    /\ UNCHANGED <<obj_vars, files>>

\* upload_csv: DatasetHistory.cleanup_old_records(request.user, keep_last=5)
UploadCleanup(p) ==
    /\ procs[p].kind = "upload_csv" /\ procs[p].pc = "cleanup"
    /\ db' = cleanup_old_records(db, procs[p].user, keep_last)
    /\ Goto(p, [procs[p] EXCEPT !.pc = "train"])
    /\ UNCHANGED <<obj_vars, files, uploads>>

\* upload_csv: the automatic training.
UploadAutoTrain(p) ==
    /\ procs[p].kind = "upload_csv" /\ procs[p].pc = "train"
    /\ \E req \in {upload_auto_train(procs[p], db, WebR2)} : Goto(p, req)
    /\ UNCHANGED <<obj_vars, files, db, uploads>>

\* save_model: "if not self.is_trained: raise", then open(filepath, 'wb').
SaveOpen(p) ==
    /\ procs[p].pc = "open"
    /\ IF procs[p].ml_model.is_trained
       THEN /\ files' = [files EXCEPT ![model_path(procs[p].user)] = open_wb(@)]
            /\ Goto(p, [procs[p] EXCEPT !.pc = "write"])
       ELSE /\ Goto(p, [procs[p] EXCEPT !.raised = NotTrained, !.pc = "saved"])
            /\ UNCHANGED files
    /\ UNCHANGED <<obj_vars, db, uploads>>

\* save_model: pickle.dump writes the next block; after the last one the file
\* is closed and save_model returns.
SaveWrite(p) ==
    /\ procs[p].pc = "write"
    /\ files' = [files EXCEPT ![model_path(procs[p].user)] =
                    write_block(@, model_data_of(procs[p].ml_model), procs[p].written + 1)]
    /\ Goto(p, [procs[p] EXCEPT !.written = @ + 1,
                                !.saved   = procs[p].written + 1 = NumChunks,
                                !.pc      = IF procs[p].written + 1 = NumChunks
                                            THEN "saved" ELSE "write"])
    /\ UNCHANGED <<obj_vars, db, uploads>>

\* save_model: a write fails (the disk is full, the medium fails) and OSError
\* leaves save_model.
SaveFail(p) ==
    /\ procs[p].pc = "write"
    /\ Goto(p, [procs[p] EXCEPT !.raised = "OSError", !.pc = "saved"])
    /\ UNCHANGED <<obj_vars, files, db, uploads>>

\* upload_csv: after the training block (left by an exception, skipped, or
\* completed with "dataset.ml_metrics = ml_metrics_flat; dataset.save()"),
\* the response.
UploadRespond(p) ==
    /\ procs[p].kind = "upload_csv" /\ procs[p].pc \in {"respond", "saved"}
    /\ db' = IF procs[p].saved
             THEN save_row(db, [procs[p].dataset EXCEPT !.ml_metrics = procs[p].ml_metrics])
             ELSE db
    /\ Goto(p, upload_response(procs[p]))
    /\ UNCHANGED <<obj_vars, files, uploads>>

\* train_model up to save_model.
TrainModel(p) ==
    /\ Free(p)
    /\ \E user \in Users, dataset_id \in {0, 1, Len(SeedRows), Len(SeedRows) + 1} :
        \E req \in {train_model_start(Request("train_model", user, dataset_id, "start"),
                                      db, WebR2)} :
            Goto(p, req)
    /\ UNCHANGED <<obj_vars, files, db, uploads>>

\* train_model: the response after save_model.
TrainModelRespond(p) ==
    /\ procs[p].kind = "train_model" /\ procs[p].pc = "saved"
    /\ Goto(p, train_model_response(procs[p]))
    /\ UNCHANGED <<obj_vars, files, db, uploads>>

\* predict_parameters: "if not os.path.exists(model_path)" answers 400.
PredictParameters(p) ==
    /\ Free(p)
    /\ \E user \in Users, equipment_type \in {1, 9} :
        \E req \in {Request("predict_parameters", user, equipment_type, "load")} :
            IF files[model_path(user)].exists
            THEN Goto(p, req)
            ELSE Goto(p, Response(req, 400, "Model not trained yet"))
    /\ UNCHANGED <<obj_vars, files, db, uploads>>

\* predict_parameters: load_model, predict and the response.
PredictLoad(p) ==
    /\ procs[p].kind = "predict_parameters" /\ procs[p].pc = "load"
    /\ \E req \in {predict_parameters_load(procs[p], files[model_path(procs[p].user)])} :
            Goto(p, req)
    /\ UNCHANGED <<obj_vars, files, db, uploads>>

\* manage.py retrain_ml: the command starts with the first user.
RetrainMl(p) ==
    /\ Free(p)
    /\ Goto(p, Request("retrain_ml", 1, NoneValue, "collect"))
    /\ UNCHANGED <<obj_vars, files, db, uploads>>

\* retrain_ml: the datasets of the current user and the training.
RetrainCollect(p) ==
    /\ procs[p].kind = "retrain_ml" /\ procs[p].pc = "collect"
    /\ \E req \in {retrain_collect(procs[p], db, WebR2)} : Goto(p, req)
    /\ UNCHANGED <<obj_vars, files, db, uploads>>

\* retrain_ml: after save_model returned, every dataset fetched is saved with
\* the metrics; after an exception, or after a skipped user, nothing is.  Then
\* the loop goes on.
RetrainNext(p) ==
    /\ procs[p].kind = "retrain_ml" /\ procs[p].pc \in {"saved", "next"}
    /\ db' = IF procs[p].saved
             THEN save_rows(db, procs[p].datasets, procs[p].ml_metrics)
             ELSE db
    /\ Goto(p, retrain_next(procs[p], NumUsers))
    /\ UNCHANGED <<obj_vars, files, uploads>>

WebNext ==
    \E p \in Procs :
        \/ UploadCsv(p)
        \/ UploadCleanup(p)
        \/ UploadAutoTrain(p)
        \/ SaveOpen(p)
        \/ SaveWrite(p)
        \/ SaveFail(p)
        \/ UploadRespond(p)
        \/ TrainModel(p)
        \/ TrainModelRespond(p)
        \/ PredictParameters(p)
        \/ PredictLoad(p)
        \/ RetrainMl(p)
        \/ RetrainCollect(p)
        \/ RetrainNext(p)

SpecWeb == WebInit /\ [][WebNext]_vars

\* ------------------------------------------------------------------ claims

IsCall(op) == ncalls' = ncalls + 1 /\ last'.op = op

\* C2: predict, predict_type and get_feature_importance on an object whose
\* is_trained is false raise the not-trained error, and so does predict_type
\* on a trained object without a classifier; the object is left as it was.
C2_NotTrainedFailsFast ==
    [][ /\ (IsCall("predict") \/ IsCall("get_feature_importance")) /\ ~obj.is_trained
            => last'.raised = NotTrained /\ obj' = obj
        /\ IsCall("predict_type") /\ (~obj.is_trained \/ obj.classifier_model = NoneValue)
            => last'.raised = ClassifierNotTrained /\ obj' = obj ]_vars

\* C2 witness: predict_type refused on a trained object that has no classifier.
C2_Witness ==
    /\ last.op = "predict_type"
    /\ last.raised = ClassifierNotTrained
    /\ obj.is_trained
    /\ obj.classifier_model = NoneValue

\* C3: a train(df) that returns has run regression and then classification:
\* the encoder left in the object is the one classification fitted, is_trained
\* is true and the result holds both metrics and status 'success'; a train(df)
\* that raises leaves is_trained as it was, and when it raised in the
\* classification step the regression step had already completed on df.
C3_TrainOrder ==
    [][ IsCall("train") =>
          IF last'.raised = ""
          THEN /\ obj'.is_trained
               /\ obj'.label_encoder.step = "classification"
               /\ last'.value.status = "success"
               /\ last'.value.regression = obj'.training_history.regression
               /\ last'.value.classification = obj'.training_history.classification
               /\ obj'.training_history.regression.total_samples = Len(clean_data(last'.arg))
          ELSE /\ obj'.is_trained = obj.is_trained
               /\ obj'.label_encoder.step = "classification"
                    => /\ obj'.scaler_regression =
                            Fit("StandardScaler", "regression", "Type_Encoded",
                                clean_data(last'.arg))
                       /\ obj'.training_history.regression.total_samples =
                            Len(clean_data(last'.arg)) ]_vars

\* C3 witness: train raised in the classification step of a fresh object, after
\* regression had fitted its three models; is_trained stayed false.
C3_Witness ==
    /\ last.op = "train"
    /\ last.raised # ""
    /\ obj.label_encoder.step = "classification"
    /\ obj.model_flowrate # NoneValue
    /\ obj.classifier_model = NoneValue
    /\ ~obj.is_trained

\* C9: load_model on a path that does not exist raises FileNotFoundError and
\* leaves every field of the object as it was.
C9_LoadMissingFile ==
    [][ IsCall("load_model") /\ ~files[ObjPath].exists
            => last'.raised = "FileNotFoundError" /\ obj' = obj ]_vars

\* C9 witness: a trained object after a load from a missing path.
C9_Witness ==
    /\ last.op = "load_model"
    /\ last.raised = "FileNotFoundError"
    /\ obj.is_trained
    /\ obj.model_flowrate # NoneValue

\* The fields an older bundle may lack, with the value each then takes: None,
\* a fresh StandardScaler, {}.
OptionalDefaults ==
    [ classifier_model      |-> NoneValue,
      scaler_regression     |-> Unfitted("StandardScaler"),
      scaler_classification |-> Unfitted("StandardScaler"),
      training_history      |-> EmptyDict ]

\* The ten fields of a bundle, and the six that are not optional.
TenFields ==
    { "model_flowrate", "model_pressure", "model_temperature", "classifier_model",
      "scaler_regression", "scaler_classification", "label_encoder", "feature_names",
      "training_history", "is_trained" }
SixFields == TenFields \ DOMAIN OptionalDefaults

\* The object holds what the stored dict d gives: the stored value of a field
\* that is present, the default of an optional field that is absent.
RestoredFrom(d, self) ==
    \A key \in TenFields :
        /\ key \in DOMAIN d => self[key] = d[key]
        /\ key \in DOMAIN OptionalDefaults \ DOMAIN d => self[key] = OptionalDefaults[key]

\* C10 as claimed: load_model on an existing bundle with any subset of the
\* fields absent does not fail and restores or defaults every field.
C10_AnySubsetLoads ==
    [][ IsCall("load_model") /\ files[ObjPath].exists
            => last'.raised = "" /\ RestoredFrom(files[ObjPath].blocks[1].data, obj') ]_vars

\* C10 amended: with the six keys read as model_data[key] present, load_model
\* does not fail, restores each present field and sets an absent
\* classifier_model to None, an absent scaler to a fresh StandardScaler and an
\* absent training_history to {}; with one of the six absent it raises KeyError.
C10_OptionalFieldsDefault ==
    [][ IsCall("load_model") /\ files[ObjPath].exists =>
          LET d == files[ObjPath].blocks[1].data
          IN  IF SixFields \subseteq DOMAIN d
              THEN last'.raised = "" /\ RestoredFrom(d, obj')
              ELSE last'.raised = "KeyError" ]_vars

\* C10 witness: a load that succeeded on a bundle lacking the four optional
\* fields, over an object that held other values.
C10_Witness ==
    /\ last.op = "load_model"
    /\ last.raised = ""
    /\ DOMAIN files[ObjPath].blocks[1].data = SixFields
    /\ obj.classifier_model = NoneValue
    /\ obj.scaler_regression = Unfitted("StandardScaler")
    /\ obj.training_history = EmptyDict
    /\ obj.model_flowrate = SampleTrained.model_flowrate

\* Worker p takes a step.
Steps(p) == procs'[p] # procs[p]

\* A bundle dict as a completed train() leaves the object: the flag set, the
\* three regressors and the classifier fitted, by one training run (the
\* regression scaler and the classifier saw the same cleaned frame).
WhollyTrained(d) ==
    /\ d.is_trained
    /\ NoneValue \notin {d.model_flowrate, d.model_pressure, d.model_temperature,
                         d.classifier_model}
    /\ d.classifier_model.fitted
    /\ d.scaler_classification.fitted
    /\ d.label_encoder.step = "classification"
    /\ d.classifier_model.fit_on = d.scaler_regression.fit_on

\* C1: a bundle file changes only in a save step of a request of that user
\* whose train() has returned, and every block written holds a wholly trained
\* bundle; so a request whose cleaning or training raised leaves the file as
\* it was, and no partially trained bundle reaches the disk.
C1_NoPartialBundle ==
    [][ \A user \in Users :
            files'[user] # files[user] =>
                /\ \E p \in Procs :
                        /\ Steps(p)
                        /\ procs[p].user = user
                        /\ procs[p].pc \in {"open", "write"}
                        /\ procs[p].raised = ""
                        /\ procs[p].ml_metrics # NoneValue
                /\ \A k \in 1..Len(files'[user].blocks) :
                        \/ files'[user].blocks[k] = Hole
                        \/ WhollyTrained(files'[user].blocks[k].data) ]_vars

\* C1 witness: an upload of user 1 whose training raised has been answered and
\* the bundle of user 1 is the one that was there before, while the other
\* request did not touch it.
C1_Witness ==
    \E p \in Procs :
        /\ procs[p].kind = "upload_csv"
        /\ procs[p].user = 1
        /\ procs[p].pc = "done"
        /\ procs[p].raised = "ValueError"
        /\ files[1] = WholeFile(model_data_of(SeedTrained.ml_model))

\* The rows a fitted estimator saw all belong to `user`.
FittedOnRowsOf(m, user) ==
    m # NoneValue /\ m.fitted => \A i \in 1..Len(m.fit_on) : m.fit_on[i].Name = user

\* Every estimator of the bundle dict d was fitted on rows of `user`.
BundleOf(d, user) ==
    \A key \in {"model_flowrate", "model_pressure", "model_temperature", "classifier_model",
                "scaler_regression", "scaler_classification"} :
        FittedOnRowsOf(d[key], user)

\* C4: a request of user u changes no bundle file but model_user_<u>; every
\* block of that file comes from a training on rows of u; and every
\* prediction returned to u was made by estimators fitted on rows of u.
C4_CrossUserIsolation ==
    [][ /\ \A user \in Users :
            files'[user] # files[user] =>
                /\ \E p \in Procs : Steps(p) /\ procs[p].user = user
                /\ \A k \in 1..Len(files'[user].blocks) :
                        \/ files'[user].blocks[k] = Hole
                        \/ BundleOf(files'[user].blocks[k].data, user)
        /\ \A p \in Procs :
            /\ Steps(p)
            /\ procs'[p].kind = "predict_parameters"
            /\ procs'[p].status = 200
            => /\ FittedOnRowsOf(procs'[p].body.predicted_flowrate.model, procs'[p].user)
               /\ FittedOnRowsOf(procs'[p].body.predicted_pressure.model, procs'[p].user)
               /\ FittedOnRowsOf(procs'[p].body.predicted_temperature.model, procs'[p].user)
               /\ FittedOnRowsOf(procs'[p].body.predicted_flowrate.scaler, procs'[p].user) ]_vars

\* C4 witness: user 1 has been given a prediction while a request of user 2
\* was in the middle of writing that user's bundle.
C4_Witness ==
    \E p, q \in Procs :
        /\ procs[p].kind = "predict_parameters"
        /\ procs[p].user = 1
        /\ procs[p].status = 200
        /\ procs[q].user = 2
        /\ procs[q].pc = "write"
        /\ procs[q].written = 1

\* C5: save_model writes the destination itself: opening it leaves the
\* user's bundle file empty at once, each write puts one more block of the new
\* bundle into that file, and a load_model that comes while the file is not a
\* whole pickle reads it as it is and fails.
C5_SaveInPlace ==
    [][ \A p \in Procs :
          /\ procs[p].pc = "open" /\ procs'[p].pc = "write"
                => files'[procs[p].user] = EmptyFile
          /\ procs[p].pc = "write" /\ procs'[p].written = procs[p].written + 1
                => files'[procs[p].user].blocks[procs'[p].written] =
                        Block(model_data_of(procs[p].ml_model), procs'[p].written)
          /\ procs[p].kind = "predict_parameters" /\ procs[p].pc = "load" /\ Steps(p)
                /\ ~is_whole_pickle(files[procs[p].user])
                => procs'[p].status = 500 /\ procs'[p].raised = "UnpicklingError" ]_vars

\* C5 witness: a predict request of a user has loaded the bundle while another
\* request of the same user was between the open and the last write of its
\* save_model, and got the partly written file.
C5_Witness ==
    \E p, q \in Procs :
        /\ procs[p].kind = "predict_parameters"
        /\ procs[p].pc = "done"
        /\ procs[p].raised = "UnpicklingError"
        /\ procs[q].user = procs[p].user
        /\ procs[q].pc = "write"
        /\ ~is_whole_pickle(files[procs[p].user])

\* C6: no request whose save_model call failed reports a successful training:
\* not upload_csv with ml_trained / ml_metrics, not train_model with
\* model_saved.
C6_SaveFailureReported ==
    \A p \in Procs :
        procs[p].pc = "done" /\ procs[p].raised = "OSError" =>
            /\ procs[p].kind = "upload_csv" /\ procs[p].status = 201
                    => ~procs[p].body.ml_trained /\ procs[p].body.ml_metrics = NoneValue
            /\ procs[p].kind = "train_model" => procs[p].status # 200

\* C7: once the automatic training of an upload has failed (train() or
\* save_model raised), the request's remaining step is the 201 response with
\* the statistics of the dataset; it changes no row, so the record created
\* for the upload is still stored and the rows the cleanup deleted stay
\* deleted.
C7_TrainingFailureKeepsUpload ==
    [][ \A p \in Procs :
            procs[p].kind = "upload_csv" /\ procs[p].raised # "" /\ Steps(p) =>
                /\ procs'[p].pc = "done"
                /\ procs'[p].status = 201
                /\ procs'[p].body.id = procs[p].dataset.id
                /\ procs'[p].body.count = procs[p].dataset.count
                /\ db' = db
                /\ \E k \in 1..Len(db') : /\ db'[k].id = procs[p].dataset.id
                                          /\ db'[k].raw_data = procs[p].dataset.raw_data ]_vars

\* C7 witness: an upload of user 1 answered with 201 after its training
\* failed, whose cleanup had deleted the oldest row of user 1.
C7_Witness ==
    \E p \in Procs :
        /\ procs[p].kind = "upload_csv"
        /\ procs[p].pc = "done"
        /\ procs[p].raised # ""
        /\ procs[p].status = 201
        /\ \E k \in 1..Len(db) : db[k].id = procs[p].body.id
        /\ ~\E k \in 1..Len(db) : db[k].id = 1
        /\ Len(filter_user(db, 1)) = keep_last

\* C8: a direct train() call with fewer than ten raw records fails, and fails
\* before any model is fit: the object's four models are what they were.
C8_TooFewRecordsRefused ==
    [][ IsCall("train") /\ Len(last'.arg) < min_samples =>
            /\ last'.raised # ""
            /\ obj'.model_flowrate = obj.model_flowrate
            /\ obj'.model_pressure = obj.model_pressure
            /\ obj'.model_temperature = obj.model_temperature
            /\ obj'.classifier_model = obj.classifier_model ]_vars

\* C11: a save_model that returns leaves a file from which a fresh object
\* loads without error the value the saving object has in each of the ten
\* fields, so that predict and predict_type on the loaded object give what
\* they give on the saving one; and a load_model that returns on a fresh
\* object over a file holding the ten fields leaves each field as stored.
C11_PersistenceRoundTrip ==
    [][ /\ IsCall("save_model") /\ last'.raised = "" =>
              LET loaded == load_model(init_model, files'[ObjPath])
              IN  /\ loaded.raised = ""
                  /\ \A key \in TenFields : loaded.self[key] = obj[key]
                  /\ \A t \in Labels :
                        /\ predict(loaded.self, t).raised = predict(obj, t).raised
                        /\ predict(loaded.self, t).value = predict(obj, t).value
                  /\ predict_type(loaded.self, 20, 10, 40).raised =
                        predict_type(obj, 20, 10, 40).raised
                  /\ predict_type(loaded.self, 20, 10, 40).value =
                        predict_type(obj, 20, 10, 40).value
        /\ /\ IsCall("load_model") /\ last'.raised = ""
           /\ DOMAIN files[ObjPath].blocks[1].data = TenFields
           => \A key \in TenFields : obj'[key] = files[ObjPath].blocks[1].data[key] ]_vars

\* C11 witness: a fresh object has loaded a file that save_model wrote from a
\* bundle trained with a classifier (the files of the initial states hold
\* none), and holds that bundle.
C11_Witness ==
    /\ last.op = "load_model"
    /\ last.raised = ""
    /\ last.before = init_model
    /\ obj.is_trained
    /\ obj.classifier_model # NoneValue
    /\ obj.training_history.classification # EmptyDict
    /\ files[ObjPath] = WholeFile(model_data_of(obj))

\* The estimator m was fitted on the cleaned frame `data`.
FittedOn(m, data) == m # NoneValue /\ m.fitted /\ m.fit_on = data

\* C12: after a train(df) that returns, on any object, every component comes
\* from this call: the three regressors, the classifier and both scalers were
\* fitted on the cleaned df, the encoder holds its labels, and both sections
\* of the history are the metrics this call returned.
C12_TrainReplacesAll ==
    [][ IsCall("train") /\ last'.raised = "" =>
          LET data == clean_data(last'.arg)
          IN  /\ FittedOn(obj'.model_flowrate, data)
              /\ FittedOn(obj'.model_pressure, data)
              /\ FittedOn(obj'.model_temperature, data)
              /\ FittedOn(obj'.classifier_model, data)
              /\ FittedOn(obj'.scaler_regression, data)
              /\ FittedOn(obj'.scaler_classification, data)
              /\ obj'.label_encoder.classes_ = classes_of(data)
              /\ obj'.training_history.regression = last'.value.regression
              /\ obj'.training_history.classification = last'.value.classification ]_vars

\* C13: predict, predict_type, get_feature_importance and save_model, returning
\* or raising, leave the object as it was: the encoder, both scalers, the four
\* models, feature_names, training_history and is_trained.
C13_ReadersLeaveBundle ==
    [][ \/ IsCall("predict")
        \/ IsCall("predict_type")
        \/ IsCall("get_feature_importance")
        \/ IsCall("save_model")
        => \A key \in TenFields : obj'[key] = obj[key] ]_vars

\* C13 witness: on a trained object, a predict for a label the training did
\* not see has returned, as the third call or later, and the object is the
\* one the call was made on.
C13_Witness ==
    /\ ncalls >= 3
    /\ last.op = "predict"
    /\ last.raised = ""
    /\ last.arg = 9
    /\ last.before = obj
    /\ obj.is_trained
    /\ obj.training_history.classification # EmptyDict

\* A bundle as a training leaves it: the flag set, the three regressors and
\* their scaler fitted.
TrainedBundle(self) ==
    /\ self.is_trained
    /\ NoneValue \notin {self.model_flowrate, self.model_pressure, self.model_temperature}
    /\ self.scaler_regression.fitted
    /\ self.label_encoder.fitted

\* The label is none of the encoder's classes.
Unseen(enc, label) == \A i \in 1..Len(enc.classes_) : enc.classes_[i] # label

IsTrainingCall ==
    IsCall("train") \/ IsCall("train_regression_models") \/ IsCall("train_classification_model")

\* C15: after a training call the encoder's classes are the distinct labels
\* of the call's cleaned data, coded 0..k-1 in ascending label order:
\* decoding the code of each label gives the label, and encoding the label of
\* each code gives the code.
C15_EncoderRoundTrip ==
    [][ IsTrainingCall =>
          LET enc    == obj'.label_encoder
              data   == clean_data(last'.arg)
              labels == {data[i].Type : i \in 1..Len(data)}
              k      == Cardinality(labels)
          IN  /\ enc.fitted
              /\ Len(enc.classes_) = k
              /\ \A L \in labels :
                    /\ \E i \in 1..k : enc.classes_[i] = L
                    /\ transform(enc, L) \in 0..(k - 1)
                    /\ inverse_transform(enc, transform(enc, L)) = L
              /\ \A i \in 0..(k - 1) :
                    /\ inverse_transform(enc, i) \in labels
                    /\ transform(enc, inverse_transform(enc, i)) = i
              /\ \A i, j \in 0..(k - 1) :
                    i < j => inverse_transform(enc, i) < inverse_transform(enc, j) ]_vars

\* C15 witness: a training call on rows whose labels come as 3, 1, 2 has left
\* an encoder with the classes 1, 2, 3, after an earlier fit on other labels.
C15_Witness ==
    /\ last.op \in {"train", "train_regression_models", "train_classification_model"}
    /\ last.arg = FrameSix
    /\ last.before.label_encoder.fitted
    /\ last.before.label_encoder.classes_ # <<1, 2, 3>>
    /\ obj.label_encoder.classes_ = <<1, 2, 3>>

\* The first candidate, in the order of models_to_test, whose score is the
\* greatest of the scores.
FirstBest(scores) ==
    CHOOSE k \in 1..Len(scores) :
        /\ \A j \in 1..Len(scores) : scores[j] <= scores[k]
        /\ \A j \in 1..(k - 1) : scores[j] < scores[k]

\* The model kept for `target` is candidate FirstBest of this call, fitted on
\* the call's cleaned data, and the metrics report its score.
KeptIsFirstBest(m, metrics, scores, target, data) ==
    /\ m.type = models_to_test[FirstBest(scores)]
    /\ m.step = "regression" /\ m.target = target /\ m.fit_on = data
    /\ metrics.r2_score = scores[FirstBest(scores)]
    /\ \A j \in 1..Len(scores) : metrics.r2_score >= scores[j]

\* C16: when train_regression_models returns, for each target the model kept
\* is the first of random forest, gradient boosting, linear regression whose
\* test R2 is the greatest of the three measured in this call, and no model
\* is None.
C16_BestR2Kept ==
    [][ IsCall("train_regression_models") /\ last'.raised = "" =>
          /\ NoneValue \notin
                {obj'.model_flowrate, obj'.model_pressure, obj'.model_temperature}
          /\ \E r2 \in R2Tables :
                LET data == clean_data(last'.arg)
                IN  /\ KeptIsFirstBest(obj'.model_flowrate, last'.value.flowrate,
                                       r2.flowrate, "flowrate", data)
                    /\ KeptIsFirstBest(obj'.model_pressure, last'.value.pressure,
                                       r2.pressure, "pressure", data)
                    /\ KeptIsFirstBest(obj'.model_temperature, last'.value.temperature,
                                       r2.temperature, "temperature", data) ]_vars

\* round(0.2 * n): 0.2 * n is never half-way between two integers.
round_fifth(n) == (2 * n + 5) \div 10

\* The sizes a metrics dict reports split the n rows 80/20.
SplitsEightyTwenty(metrics, n) ==
    /\ metrics.training_samples + metrics.test_samples = n
    /\ metrics.test_samples - round_fifth(n) \in {-1, 0, 1}

\* C17: a training that returns on a cleaned frame of N rows reports, for
\* regression and for classification, training_samples + test_samples = N
\* with test_samples within one of round(0.2 * N), and regression
\* total_samples = N.
C17_SplitSizes ==
    [][ IsTrainingCall /\ last'.raised = "" =>
          LET N   == Len(clean_data(last'.arg))
              reg == IF last'.op = "train" THEN last'.value.regression ELSE last'.value
              cls == IF last'.op = "train" THEN last'.value.classification ELSE last'.value
          IN  /\ last'.op # "train_classification_model" =>
                    /\ SplitsEightyTwenty(reg, N)
                    /\ reg.total_samples = N
                    /\ reg = obj'.training_history.regression
              /\ last'.op # "train_regression_models" =>
                    /\ SplitsEightyTwenty(cls, N)
                    /\ cls = obj'.training_history.classification ]_vars

\* C17 witness: a regression training has returned on six cleaned rows with
\* four training and two test rows, one more than round(1.2).
C17_Witness ==
    /\ last.op = "train_regression_models"
    /\ last.raised = ""
    /\ Len(clean_data(last.arg)) = 6
    /\ last.value.total_samples = 6
    /\ last.value.training_samples = 4
    /\ last.value.test_samples = round_fifth(6) + 1

\* C18: train_classification_model on a frame whose cleaned rows hold a class
\* of exactly one sample returns: the split is the plain 80/20 one (a block of
\* rows the shuffle chose, whatever their classes), the classifier is fitted
\* on the training rows and the metrics are returned and stored.
C18_StratificationFallback ==
    [][ /\ IsCall("train_classification_model")
        /\ \E c \in 1..Len(class_counts(clean_data(last'.arg))) :
                class_counts(clean_data(last'.arg))[c] = 1
        => LET data == clean_data(last'.arg)
               N    == Len(data)
           IN  /\ last'.raised = ""
               /\ FittedOn(obj'.classifier_model, data)
               /\ obj'.classifier_model.rows \in
                        { (1..N) \ (1..n_test_of(N)), 1..n_train_of(N) }
               /\ SplitsEightyTwenty(last'.value, N)
               /\ last'.value = obj'.training_history.classification ]_vars

\* C18 witness: the classification training has returned on five rows, four
\* of one type and one of another, the single row being the test part.
C18_Witness ==
    /\ last.op = "train_classification_model"
    /\ last.raised = ""
    /\ class_counts(clean_data(last.arg)) = <<4, 1>>
    /\ obj.classifier_model.rows = 1..4
    /\ last.value.training_samples = 4
    /\ last.value.test_samples = 1

\* The sum of the entries of a matrix.
RECURSIVE MatrixSum(_)
MatrixSum(m) == IF m = <<>> THEN 0 ELSE SeqSum(Head(m)) + MatrixSum(Tail(m))

\* C19: the confusion matrix that a classification training returns is k x k
\* for the k distinct classes of the test part, in ascending code order:
\* entry [i][j] is a natural number, the entries sum to test_samples, and
\* row i sums to the number of test rows of the i-th class.
C19_ConfusionMatrixShape ==
    [][ IsCall("train_classification_model") /\ last'.raised = "" =>
          LET data  == clean_data(last'.arg)
              y     == codes_of(obj'.label_encoder, data)
              test  == (1..Len(data)) \ obj'.classifier_model.rows
              codes == Dedup(sorted(y_test_of(y, [test |-> test])))
              k     == Cardinality({y[i] : i \in test})
              cm    == last'.value.confusion_matrix
          IN  /\ Len(cm) = k
              /\ \A i \in 1..Len(cm) :
                    /\ Len(cm[i]) = k
                    /\ \A j \in 1..Len(cm[i]) : cm[i][j] \in Nat
              /\ MatrixSum(cm) = last'.value.test_samples
              /\ Len(cm) = k =>
                    \A i \in 1..k :
                        SeqSum(cm[i]) = Cardinality({t \in test : y[t] = codes[i]}) ]_vars

\* The rows the cleaning is to return for df: each missing cell replaced by
\* the median of its column in df, and then the rows dropped that lie more
\* than 3 standard deviations from the mean of a column of the filled frame
\* (|x - mean| > 3 std, that is (n x - S)^2 > 9 (n SS - S^2)); the others in
\* the order of df.
CleanedAsSpecified(df) ==
    LET n == Len(df)
        filled == [i \in 1..n |->
                      [c \in DOMAIN df[i] |->
                          IF c \in {"Flowrate", "Pressure", "Temperature"} /\ isnull(df[i][c])
                          THEN median(Column(df, c))
                          ELSE df[i][c]]]
        S(c)  == SeqSum(Column(filled, c))
        SS(c) == SeqSum([i \in 1..n |-> filled[i][c] * filled[i][c]])
        far(i, c) == (n * filled[i][c] - S(c)) * (n * filled[i][c] - S(c))
                        > 9 * (n * SS(c) - S(c) * S(c))
    IN  SelectSeq(filled, LAMBDA r :
            \E i \in 1..n :
                /\ filled[i] = r
                /\ \A c \in {"Flowrate", "Pressure", "Temperature"} : ~far(i, c))

\* C20: clean_data(df), for a df with a value in each numeric column, returns
\* rows without a missing numeric cell: the rows of df, in order, with each
\* missing cell replaced by the median of its column, less the rows more than
\* 3 standard deviations from a column mean.
C20_CleanedRows ==
    [][ /\ IsCall("clean_data")
        /\ \A c \in {"Flowrate", "Pressure", "Temperature"} :
                \E i \in 1..Len(last'.arg) : ~isnull(last'.arg[i][c])
        => /\ \A i \in 1..Len(last'.value) :
                \A c \in {"Flowrate", "Pressure", "Temperature"} :
                    ~isnull(last'.value[i][c])
           /\ last'.value = CleanedAsSpecified(last'.arg) ]_vars

\* df has no missing numeric cell and no row more than 3 standard deviations
\* from the mean of a numeric column.
NoGapNoOutlier(df) ==
    LET n == Len(df)
        S(c)  == SeqSum(Column(df, c))
        SS(c) == SeqSum([i \in 1..n |-> df[i][c] * df[i][c]])
    IN  /\ \A i \in 1..n : \A c \in {"Flowrate", "Pressure", "Temperature"} : ~isnull(df[i][c])
        /\ \A i \in 1..n : \A c \in {"Flowrate", "Pressure", "Temperature"} :
              ~((n * df[i][c] - S(c)) * (n * df[i][c] - S(c)) > 9 * (n * SS(c) - S(c) * S(c)))

\* C21: clean_data(D) returns D, row for row, when D has no missing numeric
\* cell and no row beyond 3 standard deviations (a column that is the same in
\* every row included); and cleaning again what clean_data returned changes
\* nothing when the returned frame is such a D.
C21_CleaningIdempotence ==
    [][ /\ IsCall("clean_data") /\ NoGapNoOutlier(last'.arg)
           => last'.value = last'.arg
        /\ IsCall("clean_data") /\ NoGapNoOutlier(last'.value)
           => clean_data(last'.value) = last'.value ]_vars


\* The records of the datasets of `user` among the rows.
RecordsOf(rows, user) ==
    UNION { {rows[k].raw_data[i] : i \in 1..Len(rows[k].raw_data)} :
              k \in {j \in 1..Len(rows) : rows[j].user = user} }

\* s cut to its first n elements.
FirstOf(s, n) == SubSeq(s, 1, IF Len(s) < n THEN Len(s) ELSE n)

\* C22: the cleanup of an upload_csv request leaves the uploading user the
\* newest 5 of that user's records and deletes no record of another user; the
\* automatic training of the request fits on records of datasets the user has
\* after the cleanup; and when the request completes, no other upload of the
\* user waiting for its cleanup, the user has at most 5 records, the new
\* upload among them.
C22_HistoryRetention ==
    [][ \A p \in Procs :
            Steps(p) /\ procs[p].kind = "upload_csv" =>
                /\ procs[p].pc = "cleanup" =>
                      /\ filter_user(db', procs[p].user)
                            = FirstOf(filter_user(db, procs[p].user), keep_last)
                      /\ \A v \in Users \ {procs[p].user} :
                            filter_user(db', v) = filter_user(db, v)
                /\ procs[p].pc = "train" /\ procs'[p].ml_model # NoneValue =>
                      \A i \in 1..Len(procs'[p].ml_model.scaler_regression.fit_on) :
                          procs'[p].ml_model.scaler_regression.fit_on[i]
                              \in RecordsOf(db, procs[p].user)
                /\ /\ procs'[p].pc = "done"
                   /\ procs'[p].status = 201
                   /\ \A q \in Procs \ {p} :
                        ~(procs[q].kind = "upload_csv" /\ procs[q].user = procs[p].user
                            /\ procs[q].pc = "cleanup")
                   => /\ Len(filter_user(db', procs[p].user)) <= keep_last
                      /\ \E k \in 1..Len(db') : db'[k].id = procs[p].dataset.id ]_vars


\* EquipmentMLModel().train on the records raw_data, as the web model measures.
TrainedOn(raw_data) ==
    IF raw_data \in DOMAIN TrainedTable THEN TrainedTable[raw_data]
    ELSE train(init_model, raw_data, WebR2)

\* C23: a train_model request without a dataset_id (0 here) whose user has at
\* least 10 records in all, on which training succeeds, is answered, unless
\* the write of the bundle fails, with 200 and the metrics of a training on
\* all those records, the bundle saved; a request with a dataset_id that is
\* not a dataset of the user is answered with 404, and one answered with 200
\* carries the metrics of a training on the records of that dataset alone.
C23_TrainModelDatasets ==
    [][ \A p \in Procs :
            Steps(p) /\ procs'[p].kind = "train_model" /\ procs'[p].pc = "done" =>
                /\ /\ procs'[p].arg = 0
                   /\ Len(collect_raw_data(filter_user(db, procs'[p].user))) >= min_samples
                   /\ TrainedOn(collect_raw_data(filter_user(db, procs'[p].user))).raised = ""
                   /\ procs'[p].raised # "OSError"
                   => /\ procs'[p].status = 200
                      /\ procs'[p].body.metrics =
                            TrainedOn(collect_raw_data(filter_user(db, procs'[p].user))).value
                      /\ procs'[p].body.model_saved
                /\ /\ procs'[p].arg # 0
                   /\ procs[p].pc = "idle"
                   /\ ~\E k \in 1..Len(db) :
                            db[k].id = procs'[p].arg /\ db[k].user = procs'[p].user
                   => procs'[p].status = 404
                /\ procs'[p].arg # 0 /\ procs'[p].status = 200
                   => \E k \in 1..Len(db) :
                        /\ db[k].id = procs'[p].arg
                        /\ db[k].user = procs'[p].user
                        /\ procs'[p].body.metrics = TrainedOn(db[k].raw_data).value ]_vars


\* df with each missing numeric cell replaced by the median of its column.
MedianFilled(df) ==
    [i \in 1..Len(df) |->
        [c \in DOMAIN df[i] |->
            IF c \in {"Flowrate", "Pressure", "Temperature"} /\ isnull(df[i][c])
            THEN median(Column(df, c))
            ELSE df[i][c]]]

\* C24: process_csv_file and clean_data, given 5 rows or fewer, skip the
\* outlier removal: they return every row, the missing cells filled with the
\* column medians.
C24_SmallFramesKept ==
    [][ /\ IsCall("clean_data") \/ IsCall("process_csv_file")
        /\ last'.raised = ""
        /\ Len(last'.arg) <= 5
        => last'.value = MedianFilled(last'.arg) ]_vars


\* C25: a train(df) whose cleaned frame has fewer than 2 rows (none at all
\* included) raises the split's ValueError to the caller before any model or
\* scaler is fitted, and leaves is_trained as it was.
C25_TooFewCleanRows ==
    [][ IsCall("train") /\ Len(clean_data(last'.arg)) < 2 =>
            /\ last'.raised = "ValueError"
            /\ obj'.model_flowrate = obj.model_flowrate
            /\ obj'.model_pressure = obj.model_pressure
            /\ obj'.model_temperature = obj.model_temperature
            /\ obj'.classifier_model = obj.classifier_model
            /\ obj'.scaler_regression = obj.scaler_regression
            /\ obj'.scaler_classification = obj.scaler_classification
            /\ obj'.is_trained = obj.is_trained ]_vars

\* C25 witness: train on three rows of one pressure, all of which the
\* cleaning drops, has raised on a fresh object.
C25_Witness ==
    /\ last.op = "train"
    /\ last.arg = FrameFlat
    /\ clean_data(FrameFlat) = <<>>
    /\ last.raised = "ValueError"
    /\ last.before = init_model
    /\ ~obj.is_trained


\* C26: train_classification_model on a frame whose cleaned rows hold at
\* least 2 samples of every class splits by label: it returns, and the rows
\* the classifier is fitted on and the rows left for the test each hold a
\* sample of every class.  (With a class of fewer than 2 samples the split is
\* the plain one: C18.)
C26_StratifiedSplitSucceeds ==
    [][ /\ IsCall("train_classification_model")
        /\ clean_data(last'.arg) # <<>>
        /\ \A c \in 1..Len(class_counts(clean_data(last'.arg))) :
                class_counts(clean_data(last'.arg))[c] >= 2
        => LET data == clean_data(last'.arg)
               N    == Len(data)
           IN  /\ last'.raised = ""
               /\ \A i \in 1..N :
                    /\ \E j \in obj'.classifier_model.rows : data[j].Type = data[i].Type
                    /\ \E j \in (1..N) \ obj'.classifier_model.rows :
                            data[j].Type = data[i].Type ]_vars


\* The code of `label` in the sorted classes, -1 when it is not among them.
CodeIn(classes, label) ==
    IF \E i \in 1..Len(classes) : classes[i] = label
    THEN (CHOOSE i \in 1..Len(classes) : classes[i] = label) - 1
    ELSE -1

\* The codes the estimator m was fitted with (those of the encoder fitted on
\* the frame m saw) are the codes enc gives to the same labels.
SameCodes(m, enc) ==
    m # NoneValue /\ m.fitted =>
        \A i \in 1..Len(m.fit_on) :
            CodeIn(enc.classes_, m.fit_on[i].Type) = CodeIn(classes_of(m.fit_on), m.fit_on[i].Type)

\* C27: after a train(df) that returns, the labels listed in the regression
\* metrics are those listed in the classification metrics and those of the
\* encoder the object keeps, and that encoder gives every label the code that
\* the three regressors and the regression scaler were fitted with.
C27_EncoderConsistency ==
    [][ IsCall("train") /\ last'.raised = "" =>
            /\ last'.value.regression.equipment_types
                    = last'.value.classification.equipment_types
            /\ last'.value.regression.equipment_types = obj'.label_encoder.classes_
            /\ SameCodes(obj'.model_flowrate, obj'.label_encoder)
            /\ SameCodes(obj'.model_pressure, obj'.label_encoder)
            /\ SameCodes(obj'.model_temperature, obj'.label_encoder)
            /\ SameCodes(obj'.scaler_regression, obj'.label_encoder) ]_vars


\* An object whose flag, when set, comes with three fitted regressors, a
\* fitted classifier and both sections of the history.
FlagMeansFitted(self) ==
    self.is_trained =>
        /\ \A m \in {self.model_flowrate, self.model_pressure, self.model_temperature,
                     self.classifier_model} : m # NoneValue /\ m.fitted
        /\ \A k \in {"regression", "classification"} :
                k \in DOMAIN self.training_history /\ self.training_history[k] # EmptyDict

\* C28: a new object has the flag unset, and train(), returning or raising,
\* takes an object whose flag means fitted to one whose flag means fitted: so
\* on an object that only train() changes, is_trained implies that the three
\* regressors and the classifier are fitted and both history sections filled.
C28_TrainedMeansFitted ==
    [][ /\ IsCall("__init__") => ~obj'.is_trained
        /\ IsCall("train") /\ FlagMeansFitted(obj) => FlagMeansFitted(obj') ]_vars

\* C28 witness: on a trained object a later train() has raised in the
\* classification step, after the regression step replaced the regressors.
C28_Witness ==
    /\ last.op = "train"
    /\ last.raised = "ValueError"
    /\ last.arg = FrameSix
    /\ last.before.is_trained
    /\ FlagMeansFitted(last.before)
    /\ obj.is_trained
    /\ obj.model_flowrate # last.before.model_flowrate
    /\ obj.classifier_model = last.before.classifier_model


\* C29: save_model on an object whose is_trained is false raises the
\* not-trained error and leaves the file at the path as it was, missing or
\* with its content; and every block that a save_model call writes comes from
\* a dict whose is_trained is true.
C29_SaveNeedsTrained ==
    [][ /\ IsCall("save_model") /\ ~obj.is_trained =>
              /\ last'.raised = NotTrained
              /\ files' = files
              /\ obj' = obj
        /\ IsCall("save_model") /\ files'[ObjPath] # files[ObjPath] =>
              \A k \in 1..Len(files'[ObjPath].blocks) :
                  \/ files'[ObjPath].blocks[k] = Hole
                  \/ files'[ObjPath].blocks[k].data.is_trained ]_vars

\* C29 witness: save_model has raised on a new object, at a path where an
\* earlier bundle lies, and the bundle is still there.
C29_Witness ==
    /\ last.op = "save_model"
    /\ last.raised = NotTrained
    /\ ~obj.is_trained
    /\ files[ObjPath] = WholeFile(OldBundle(SampleTrained))


\* C30: when train_regression_models returns, each regressor it fitted in
\* this call saw, for the features (from the first split) and for its target
\* (from the split of that target), the same rows of the cleaned frame: the
\* training rows of the 80/20 split, the same for the three targets; the rest
\* are the test rows it is scored on.
C30_SplitsSelectSameRows ==
    [][ IsCall("train_regression_models") /\ last'.raised = "" =>
            \A m \in {obj'.model_flowrate, obj'.model_pressure, obj'.model_temperature} :
                m.fit_on = clean_data(last'.arg) /\ m \notin
                    {obj.model_flowrate, obj.model_pressure, obj.model_temperature}
                => /\ m.y_rows = m.X_rows
                   /\ m.X_rows = obj'.model_flowrate.X_rows
                   /\ Cardinality(m.X_rows) = last'.value.training_samples ]_vars

\* C30 witness: the regression training has returned on ten rows with three
\* regressors of this call, fitted on rows 1 to 8 for features and target.
C30_Witness ==
    /\ last.op = "train_regression_models"
    /\ last.raised = ""
    /\ last.arg = FrameTen
    /\ last.before = init_model
    /\ obj.model_flowrate.X_rows = 1..8
    /\ obj.model_pressure.y_rows = 1..8
    /\ obj.model_temperature.y_rows = 1..8

====
